---- MODULE Spec2Model ----
(***************************************************************************)
(* Producer/consumer backpressure simulation of runRealTimeStreamDemo      *)
(* (src/src/lib/streams.ts).  One run of the generator is modelled: the    *)
(* prologue, the tick loop (producer phase, consumer phase, delay) and the *)
(* completion block.  Event timestamps (Date.now()) are not modelled.      *)
(* Further specifications model two interleaved invocations (TwinSpec),    *)
(* the mock server of src/server/index.js (ServerSpec), the useStreams     *)
(* hook (StreamsSpec) and the useDashboard hook with the program it runs   *)
(* (DashboardSpec).                                                        *)
(***************************************************************************)
EXTENDS Integers, Sequences, FiniteSets, TLC

VARIABLES
    processingSpeed,     \* options.processingSpeed
    enableBackpressure,  \* options.enableBackpressure
    bufferLimit,         \* the buffer capacity the run uses (BUFFER_LIMIT)
    rng,                 \* state of the pseudo-random generator behind Math.random
    pc,                  \* position of the generator
    cycles,
    itemsGenerated,
    itemsProcessed,
    itemsDropped,
    backpressureEvents,
    buffer,
    results,
    events,              \* every event handed to onEvent, in call order
    returned,            \* the value the effect returns
    run,                 \* two invocations: each one's options, position, sink
    mem,                 \* the bindings the invocations declare, by cell
    alone,               \* each invocation as it runs with no other one
    requests,            \* mock server: the requests and what was sent back
    streamState,         \* useStreams: the hook's state
    demo,                \* useStreams: the runStreamDemo call in progress
    received,            \* useStreams: events handed to onStreamEvent since the last start
    dashboardState,      \* useDashboard: the hook's state
    dashRuns,            \* useDashboard: the runs the effect has started
    edgeOrigin           \* useDashboard: the run behind each edge state and the time

vars == << processingSpeed, enableBackpressure, bufferLimit, rng, pc, cycles,
           itemsGenerated, itemsProcessed, itemsDropped, backpressureEvents,
           buffer, results, events, returned, run, mem, alone,
           requests, streamState, demo, received,
           dashboardState, dashRuns, edgeOrigin >>

\* the variables of the two-invocation model
twin == << run, mem, alone >>
\* the variables of the mock server, of useStreams and of useDashboard
serverVars == << requests >>
streamVars == << streamState, demo, received >>
dashVars == << dashboardState, dashRuns, edgeOrigin >>
\* what the simulation leaves alone
outside == << serverVars, streamVars, dashVars >>

----------------------------------------------------------------------------
(* Bounds of the model *)

\* seeds of the pseudo-random generator range over 0..MaxSeed
MaxSeed == 1

----------------------------------------------------------------------------
(* Program constants *)

BUFFER_LIMIT == 5
TOTAL_ITEMS == 20
producerInterval == 30
\* the quantum of one cycle: Effect.delay(Effect.void, 10), and the divisor
\* of Math.ceil(producerInterval / 10), Math.ceil(consumerDelay / 10)
CycleMs == 10
MinCycles == 60

Speeds == {"slow", "normal", "fast"}

\* capacities a run is checked with: the program's 5 and every smaller
\* positive capacity down to the boundary capacity 1
Capacities == 1..BUFFER_LIMIT

\* what buffer.shift() yields on an empty array, and twice that (NaN)
Undefined == 0 - 1
NaN == 0 - 2

----------------------------------------------------------------------------
(* Helpers *)

\* mutant: the delays of slow and fast are swapped
processDelay_Swapped(speed) ==
    CASE speed = "slow"   -> 10
      [] speed = "normal" -> 50
      [] speed = "fast"   -> 200
processDelay(speed) ==
    CASE speed = "slow"   -> 200
      [] speed = "normal" -> 50
      [] speed = "fast"   -> 10

\* Math.ceil(a / b) for positive integers
Ceil(a, b) == (a + b - 1) \div b

Max(a, b) == IF a >= b THEN a ELSE b
Min(a, b) == IF a <= b THEN a ELSE b

\* mutant: Math.min in place of Math.max
maxCycles_Min == Min(TOTAL_ITEMS * 2, MinCycles)
\* mutant: a budget of four cycles per item
maxCycles_Long == Max(TOTAL_ITEMS * 4, MinCycles)
maxCycles == Max(TOTAL_ITEMS * 2, MinCycles)

LoopCondition(cyc, processed) == cyc < maxCycles /\ processed < TOTAL_ITEMS

\* mutant: || in place of &&
shouldGenerate_Or(generated, cyc) ==
    generated < TOTAL_ITEMS \/ cyc % Ceil(producerInterval, CycleMs) = 0
\* mutant: the cycles are counted from 0
shouldGenerate_FromZero(generated, cyc) ==
    generated < TOTAL_ITEMS /\ (cyc - 1) % Ceil(producerInterval, CycleMs) = 0
shouldGenerate(generated, cyc) ==
    generated < TOTAL_ITEMS /\ cyc % Ceil(producerInterval, CycleMs) = 0

\* mutant: the emptiness test is missing
shouldConsume_NoEmptyTest(buf, cyc, consumerDelay) ==
    cyc % Ceil(consumerDelay, CycleMs) = 0
shouldConsume(buf, cyc, consumerDelay) ==
    Len(buf) > 0 /\ cyc % Ceil(consumerDelay, CycleMs) = 0

\* mutant: buffer.pop()'s value is processed while shift() removes the head
ShiftValue_Last(buf) == IF Len(buf) = 0 THEN Undefined ELSE buf[Len(buf)]
\* Array.prototype.shift: the removed element (undefined when empty) ...
ShiftValue(buf) == IF Len(buf) = 0 THEN Undefined ELSE Head(buf)
\* ... and the array it leaves
ShiftRest(buf) == IF Len(buf) = 0 THEN << >> ELSE Tail(buf)

\* mutant: value + 2
Times2_Plus(v) == IF v = Undefined \/ v = NaN THEN NaN ELSE v + 2
\* value * 2 in JavaScript arithmetic
Times2(v) == IF v = Undefined \/ v = NaN THEN NaN ELSE v * 2

\* mutant: the reducer returns val in place of acc + val
SumSeq_LastOnly(s) == IF Len(s) = 0 THEN 0 ELSE s[Len(s)]
\* results.reduce((acc, val) => acc + val, 0)
RECURSIVE SumSeq(_)
SumSeq(s) ==
    IF Len(s) = 0 THEN 0
    ELSE LET rest == SumSeq(Tail(s))
         IN  IF Head(s) = NaN \/ rest = NaN THEN NaN ELSE Head(s) + rest

\* Math.random as a linear congruential generator over 64 states
NextRng(r) == (5 * r + 3) % 64
\* Math.floor(Math.random() * 100) for the generator state r
RandomValue(r) == (r * 100) \div 64

----------------------------------------------------------------------------
(* Events handed to onEvent: type and data as in the source; msg names the *)
(* message template, note the part of the message computed from the state  *)

NoData == [none |-> TRUE]

Event(type, msg, note, data) ==
    [type |-> type, msg |-> msg, note |-> note, data |-> data]

----------------------------------------------------------------------------
(* Producer phase.  s is the part of the run the phase reads and writes:   *)
(* [buffer, itemsGenerated, itemsDropped, backpressureEvents, events, rng] *)

\* mutant: values below 50 are filtered out before they reach the buffer
PushGenerated_Filtered(s, lim, markFull) ==
    LET r        == NextRng(s.rng)
        newValue == RandomValue(r)
        buf      == Append(s.buffer, newValue)
    IN  IF newValue < 50
        THEN [s EXCEPT !.rng = r]
        ELSE [s EXCEPT !.rng = r,
                       !.buffer = buf,
                       !.itemsGenerated = @ + 1,
                       !.events = Append(@,
                           Event("transform", "Generated",
                                 IF markFull /\ Len(buf) = lim THEN "(FULL!)" ELSE "",
                                 [value |-> newValue, bufferSize |-> Len(buf)]))]
\* const newValue = Math.floor(Math.random() * 100); buffer.push(newValue);
\* itemsGenerated++; onEvent(Generated)
PushGenerated(s, lim, markFull) ==
    LET r        == NextRng(s.rng)
        newValue == RandomValue(r)
        buf      == Append(s.buffer, newValue)
    IN  [s EXCEPT !.rng = r,
                  !.buffer = buf,
                  !.itemsGenerated = @ + 1,
                  !.events = Append(@,
                      Event("transform", "Generated",
                            IF markFull /\ Len(buf) = lim THEN "(FULL!)" ELSE "",
                            [value |-> newValue, bufferSize |-> Len(buf)]))]

\* mutant: <= in place of < in the capacity test
ProducerOn_OffByOne(s, lim) ==
    IF Len(s.buffer) <= lim
    THEN PushGenerated(s, lim, FALSE)
    ELSE [s EXCEPT !.backpressureEvents = @ + 1,
                   !.events = Append(@,
                       Event("backpressure", "BACKPRESSURE", "",
                             [bufferSize |-> Len(s.buffer)]))]
\* mutant: a blocked item is counted as generated
ProducerOn_CountsBlocked(s, lim) ==
    IF Len(s.buffer) < lim
    THEN PushGenerated(s, lim, FALSE)
    ELSE [s EXCEPT !.backpressureEvents = @ + 1,
                   !.itemsGenerated = @ + 1,
                   !.events = Append(@,
                       Event("backpressure", "BACKPRESSURE", "",
                             [bufferSize |-> Len(s.buffer)]))]
\* WITH BACKPRESSURE: generate when there is room, else count a block
ProducerOn(s, lim) ==
    IF Len(s.buffer) < lim
    THEN PushGenerated(s, lim, FALSE)
    ELSE [s EXCEPT !.backpressureEvents = @ + 1,
                   !.events = Append(@,
                       Event("backpressure", "BACKPRESSURE", "",
                             [bufferSize |-> Len(s.buffer)]))]

\* mutant: buffer.pop() in place of buffer.shift(): the newest is dropped
DropOldest_Newest(s) ==
    [s EXCEPT !.buffer = IF Len(@) = 0 THEN << >> ELSE SubSeq(@, 1, Len(@) - 1),
              !.itemsDropped = @ + 1,
              !.events = Append(@,
                  Event("error", "OVERFLOW", "",
                        [dropped |-> IF Len(s.buffer) = 0 THEN Undefined
                                     ELSE s.buffer[Len(s.buffer)],
                         totalDropped |-> s.itemsDropped + 1]))]
\* const dropped = buffer.shift(); itemsDropped++; onEvent(OVERFLOW)
DropOldest(s) ==
    [s EXCEPT !.buffer = ShiftRest(@),
              !.itemsDropped = @ + 1,
              !.events = Append(@,
                  Event("error", "OVERFLOW", "",
                        [dropped |-> ShiftValue(s.buffer),
                         totalDropped |-> s.itemsDropped + 1]))]

\* mutant: the new value is pushed before the oldest is evicted
ProducerOff_DropAfter(s, lim) ==
    IF Len(s.buffer) >= lim
    THEN DropOldest(PushGenerated(s, lim, TRUE))
    ELSE PushGenerated(s, lim, TRUE)
\* mutant: the capacity test of the eviction is always true
ProducerOff_AlwaysEvict(s, lim) ==
    IF Len(s.buffer) >= 0
    THEN PushGenerated(DropOldest(s), lim, TRUE)
    ELSE PushGenerated(s, lim, TRUE)
\* mutant: the eviction is not counted
ProducerOff_Uncounted(s, lim) ==
    IF Len(s.buffer) >= lim
    THEN PushGenerated([s EXCEPT !.buffer = ShiftRest(@)], lim, TRUE)
    ELSE PushGenerated(s, lim, TRUE)
\* WITHOUT BACKPRESSURE: always generate, drop the oldest when full
ProducerOff(s, lim) ==
    IF Len(s.buffer) >= lim
    THEN PushGenerated(DropOldest(s), lim, TRUE)
    ELSE PushGenerated(s, lim, TRUE)

\* mutant: the flag is ignored and the producer always drops
ProducerStep_AlwaysDrop(bp, s, lim) == ProducerOff(s, lim)
\* mutant: the flag is ignored and the producer always blocks
ProducerStep_AlwaysBlock(bp, s, lim) == ProducerOn(s, lim)
\* if (enableBackpressure) { ... } else { ... }
ProducerStep(bp, s, lim) ==
    IF bp THEN ProducerOn(s, lim) ELSE ProducerOff(s, lim)

----------------------------------------------------------------------------
(* An invocation as a record.  Each call of runRealTimeStreamDemo has its  *)
(* options, its position, its sink and the random values it draws (run),   *)
(* and the bindings its body declares: cycles, the four counters, buffer    *)
(* and results (a cell of mem).  Between two yields (Effect.log, then       *)
(* Effect.delay at the end of every cycle) the body runs without            *)
(* interruption, so an invocation moves one such segment at a time.         *)

Runs == 1..2

\* mutant: the bindings are module-level, one cell for every invocation
Cell_Shared(r) == 1
\* let itemsGenerated = 0 ... const results = []: declared in the body of the
\* generator function, so every invocation has bindings of its own
Cell(r) == r

\* the bindings before the declarations have run
NoBindings ==
    [cycles |-> 0, itemsGenerated |-> 0, itemsProcessed |-> 0,
     itemsDropped |-> 0, backpressureEvents |-> 0,
     buffer |-> << >>, results |-> << >>]

\* an invocation that has not begun: its options and the seed of the
\* random values it will draw
NewRun(speed, bp, lim, seed) ==
    [pc |-> "start", speed |-> speed, bp |-> bp, limit |-> lim, seed |-> seed,
     rng |-> seed, events |-> << >>, returned |-> NoData]

\* what an invocation sees: its own record and the bindings of its cell
Join(c, m) ==
    [pc |-> c.pc, speed |-> c.speed, bp |-> c.bp, limit |-> c.limit,
     seed |-> c.seed, rng |-> c.rng, events |-> c.events,
     returned |-> c.returned,
     cycles |-> m.cycles, itemsGenerated |-> m.itemsGenerated,
     itemsProcessed |-> m.itemsProcessed, itemsDropped |-> m.itemsDropped,
     backpressureEvents |-> m.backpressureEvents,
     buffer |-> m.buffer, results |-> m.results]
Ctl(st) ==
    [pc |-> st.pc, speed |-> st.speed, bp |-> st.bp, limit |-> st.limit,
     seed |-> st.seed, rng |-> st.rng, events |-> st.events,
     returned |-> st.returned]
Bindings(st) ==
    [cycles |-> st.cycles, itemsGenerated |-> st.itemsGenerated,
     itemsProcessed |-> st.itemsProcessed, itemsDropped |-> st.itemsDropped,
     backpressureEvents |-> st.backpressureEvents,
     buffer |-> st.buffer, results |-> st.results]

\* the prologue: three announcements, the bindings declared
RunPrologue(st) ==
    [st EXCEPT
       !.events = << Event("transform", "Simulating",
                           IF st.bp THEN "backpressure enabled"
                                    ELSE "NO backpressure", NoData),
                     Event("transform", "Producer/Consumer", st.speed, NoData),
                     Event("transform", "Timing",
                           IF processDelay(st.speed) > producerInterval
                           THEN "(PRESSURE!)" ELSE "(no pressure)", NoData) >>,
       !.itemsGenerated = 0,
       !.itemsProcessed = 0,
       !.itemsDropped = 0,
       !.backpressureEvents = 0,
       !.buffer = << >>,
       !.results = << >>,
       !.cycles = 0]

\* the consumer phase when it fires
ConsumeOne(st) ==
    LET value       == ShiftValue(st.buffer)
        transformed == Times2(value)
    IN  [st EXCEPT !.buffer = ShiftRest(@),
                   !.results = Append(@, transformed),
                   !.itemsProcessed = @ + 1,
                   !.events = Append(@,
                       Event("transform", "Processed", "",
                             [value |-> value, transformed |-> transformed,
                              bufferSize |-> Len(ShiftRest(st.buffer)),
                              processed |-> st.itemsProcessed + 1]))]

\* mutant: the run yields after the producer phase when it fired, and the
\* consumer phase of that cycle is not run
RunCycle_SplitTick(st) ==
    LET a == [st EXCEPT !.cycles = @ + 1]
    IN  IF shouldGenerate(a.itemsGenerated, a.cycles)
        THEN [ProducerStep(a.bp, a, a.limit) EXCEPT !.pc = "delay"]
        ELSE IF shouldConsume(a.buffer, a.cycles, processDelay(a.speed))
             THEN [ConsumeOne(a) EXCEPT !.pc = "delay"]
             ELSE [a EXCEPT !.pc = "delay"]
\* one cycle: cycles++, producer phase, consumer phase, up to the delay
RunCycle(st) ==
    LET a == [st EXCEPT !.cycles = @ + 1]
        b == IF shouldGenerate(a.itemsGenerated, a.cycles)
             THEN ProducerStep(a.bp, a, a.limit)
             ELSE a
        c == IF shouldConsume(b.buffer, b.cycles, processDelay(b.speed))
             THEN ConsumeOne(b)
             ELSE b
    IN  [c EXCEPT !.pc = "delay"]

\* after the loop: the summary event, the policy's verdict, the return value
RunComplete(st) ==
    LET sum == SumSeq(st.results)
    IN  [st EXCEPT
           !.events = @ \o
              << Event("complete", "Final", "",
                       [generated |-> st.itemsGenerated,
                        processed |-> st.itemsProcessed,
                        dropped |-> st.itemsDropped,
                        sum |-> sum,
                        backpressureEvents |-> st.backpressureEvents]),
                 IF st.bp
                 THEN Event("complete", "Backpressure prevented data loss",
                            IF st.itemsDropped = 0 THEN "SUCCESS!"
                                                   ELSE "Some loss occurred",
                            NoData)
                 ELSE Event("complete", "No backpressure",
                            IF st.itemsDropped > 0 THEN "items LOST to overflow!"
                            ELSE "No overflow (consumer kept up)",
                            NoData) >>,
           !.returned = [processed |-> st.itemsProcessed, sum |-> sum,
                         backpressureEvents |-> st.backpressureEvents],
           !.pc = "done"]

\* the loop test, then the next cycle or the completion
RunLoop(st) ==
    IF LoopCondition(st.cycles, st.itemsProcessed)
    THEN RunCycle(st)
    ELSE RunComplete(st)

\* the two-invocation variables while only the single run is looked at
TwinIdle ==
    /\ run = [r \in Runs |-> NewRun("fast", TRUE, BUFFER_LIMIT, 0)]
    /\ mem = [c \in Runs |-> NoBindings]
    /\ alone = [r \in Runs |-> Join(run[r], NoBindings)]


----------------------------------------------------------------------------
(* The other components as they are constructed *)

\* the requests the mock server is sent are numbered 1..MaxRequests
MaxRequests == 3
\* a stream run hands at most MaxEvents events to the hook
MaxEvents == 102
\* runStreamDemo is called at most MaxCalls times
MaxCalls == 2
\* the dashboard effect starts at most MaxDashRuns runs
MaxDashRuns == 2

\* no request has reached the server
ServerStart ==
    requests = [i \in 1..MaxRequests |->
                  [pc |-> "none", endpoint |-> "none", responses |-> << >>]]

\* useState<StreamState>({...}) and no call of runStreamDemo in progress
StreamsStart ==
    /\ streamState = [streamLogs |-> << >>,
                      streamDemo |-> "csv",
                      processingSpeed |-> "normal",
                      enableBackpressure |-> TRUE,
                      batchSize |-> 10,
                      isStreamRunning |-> FALSE]
    /\ demo = [pc |-> "idle", call |-> 0, emitted |-> 0, streamDemo |-> "csv",
               outcome |-> "none"]
    /\ received = << >>

\* the three tasks of the dashboard
TaskKeys == {"user", "orders", "recs"}
\* useState<DashboardState>({...}) and no run started
DashboardStart ==
    /\ dashboardState = [edgeStates |-> [k \in TaskKeys |-> "pending"],
                         logs |-> << >>,
                         useMocks |-> FALSE,
                         sequential |-> FALSE,
                         concurrencyMode |-> "concurrent",
                         runToken |-> 0,
                         isRunning |-> FALSE,
                         executionTime |-> NoData]
    /\ dashRuns = << >>
    /\ edgeOrigin = [k \in TaskKeys \cup {"executionTime"} |-> 0]

\* the components the simulation does not touch, as constructed
OutsideIdle == ServerStart /\ StreamsStart /\ DashboardStart
----------------------------------------------------------------------------
(* The run *)

Init ==
    /\ processingSpeed \in Speeds
    /\ enableBackpressure \in BOOLEAN
    /\ bufferLimit \in Capacities
    /\ rng \in 0..MaxSeed
    /\ pc = "start"
    /\ cycles = 0
    /\ itemsGenerated = 0
    /\ itemsProcessed = 0
    /\ itemsDropped = 0
    /\ backpressureEvents = 0
    /\ buffer = << >>
    /\ results = << >>
    /\ events = << >>
    /\ returned = NoData
    /\ TwinIdle
    /\ OutsideIdle

config == << processingSpeed, enableBackpressure, bufferLimit >>

\* the prologue: three announcements, the counters and the buffer set up
Start ==
    /\ pc = "start"
    /\ events' = << Event("transform", "Simulating",
                          IF enableBackpressure THEN "backpressure enabled"
                                                ELSE "NO backpressure", NoData),
                    Event("transform", "Producer/Consumer", processingSpeed, NoData),
                    Event("transform", "Timing",
                          IF processDelay(processingSpeed) > producerInterval
                          THEN "(PRESSURE!)" ELSE "(no pressure)", NoData) >>
    /\ itemsGenerated' = 0
    /\ itemsProcessed' = 0
    /\ itemsDropped' = 0
    /\ backpressureEvents' = 0
    /\ buffer' = << >>
    /\ results' = << >>
    /\ cycles' = 0
    /\ pc' = "loop"
    /\ UNCHANGED << config, rng, returned >>
    /\ UNCHANGED << twin, outside >>

\* while (cycles < maxCycles && itemsProcessed < TOTAL_ITEMS) { cycles++
EnterCycle ==
    /\ pc = "loop"
    /\ LoopCondition(cycles, itemsProcessed)
    /\ cycles' = cycles + 1
    /\ pc' = "producer"
    /\ UNCHANGED << config, rng, itemsGenerated, itemsProcessed, itemsDropped,
                    backpressureEvents, buffer, results, events, returned >>
    /\ UNCHANGED << twin, outside >>

\* PRODUCER PHASE
ProducerPhase ==
    /\ pc = "producer"
    /\ LET s == [buffer |-> buffer, itemsGenerated |-> itemsGenerated,
                 itemsDropped |-> itemsDropped,
                 backpressureEvents |-> backpressureEvents,
                 events |-> events, rng |-> rng]
           t == IF shouldGenerate(itemsGenerated, cycles)
                THEN ProducerStep(enableBackpressure, s, bufferLimit)
                ELSE s
       IN  /\ buffer' = t.buffer
           /\ itemsGenerated' = t.itemsGenerated
           /\ itemsDropped' = t.itemsDropped
           /\ backpressureEvents' = t.backpressureEvents
           /\ events' = t.events
           /\ rng' = t.rng
    /\ pc' = "consumer"
    /\ UNCHANGED << config, cycles, itemsProcessed, results, returned >>
    /\ UNCHANGED << twin, outside >>

\* CONSUMER PHASE
ConsumerPhase ==
    /\ pc = "consumer"
    /\ IF shouldConsume(buffer, cycles, processDelay(processingSpeed))
       THEN LET value       == ShiftValue(buffer)
                transformed == Times2(value)
            IN  /\ buffer' = ShiftRest(buffer)
                /\ results' = Append(results, transformed)
                /\ itemsProcessed' = itemsProcessed + 1
                /\ events' = Append(events,
                       Event("transform", "Processed", "",
                             [value |-> value, transformed |-> transformed,
                              bufferSize |-> Len(ShiftRest(buffer)),
                              processed |-> itemsProcessed + 1]))
       ELSE UNCHANGED << buffer, results, itemsProcessed, events >>
    /\ pc' = "delay"
    /\ UNCHANGED << config, rng, cycles, itemsGenerated, itemsDropped,
                    backpressureEvents, returned >>
    /\ UNCHANGED << twin, outside >>

\* yield* Effect.delay(Effect.void, 10): the run yields, then tests the loop
Delay ==
    /\ pc = "delay"
    /\ pc' = "loop"
    /\ UNCHANGED << config, rng, cycles, itemsGenerated, itemsProcessed,
                    itemsDropped, backpressureEvents, buffer, results, events,
                    returned >>
    /\ UNCHANGED << twin, outside >>

\* mutant: the result reports the generated count as processed
Complete_ReturnsGenerated ==
    /\ pc = "loop"
    /\ ~LoopCondition(cycles, itemsProcessed)
    /\ LET sum == SumSeq(results)
       IN  /\ events' = events \o
                << Event("complete", "Final", "",
                         [generated |-> itemsGenerated,
                          processed |-> itemsProcessed,
                          dropped |-> itemsDropped,
                          sum |-> sum,
                          backpressureEvents |-> backpressureEvents]),
                   IF enableBackpressure
                   THEN Event("complete", "Backpressure prevented data loss",
                              IF itemsDropped = 0 THEN "SUCCESS!"
                                                  ELSE "Some loss occurred",
                              NoData)
                   ELSE Event("complete", "No backpressure",
                              IF itemsDropped > 0 THEN "items LOST to overflow!"
                              ELSE "No overflow (consumer kept up)",
                              NoData) >>
           /\ returned' = [processed |-> itemsGenerated, sum |-> sum,
                           backpressureEvents |-> backpressureEvents]
    /\ pc' = "done"
    /\ UNCHANGED << config, rng, cycles, itemsGenerated, itemsProcessed,
                    itemsDropped, backpressureEvents, buffer, results >>
    /\ UNCHANGED << twin, outside >>
\* after the loop: the summary event, the policy's verdict, the return value
Complete ==
    /\ pc = "loop"
    /\ ~LoopCondition(cycles, itemsProcessed)
    /\ LET sum == SumSeq(results)
       IN  /\ events' = events \o
                << Event("complete", "Final", "",
                         [generated |-> itemsGenerated,
                          processed |-> itemsProcessed,
                          dropped |-> itemsDropped,
                          sum |-> sum,
                          backpressureEvents |-> backpressureEvents]),
                   IF enableBackpressure
                   THEN Event("complete", "Backpressure prevented data loss",
                              IF itemsDropped = 0 THEN "SUCCESS!"
                                                  ELSE "Some loss occurred",
                              NoData)
                   ELSE Event("complete", "No backpressure",
                              IF itemsDropped > 0 THEN "items LOST to overflow!"
                              ELSE "No overflow (consumer kept up)",
                              NoData) >>
           /\ returned' = [processed |-> itemsProcessed, sum |-> sum,
                           backpressureEvents |-> backpressureEvents]
    /\ pc' = "done"
    /\ UNCHANGED << config, rng, cycles, itemsGenerated, itemsProcessed,
                    itemsDropped, backpressureEvents, buffer, results >>
    /\ UNCHANGED << twin, outside >>

Next ==
    \/ Start
    \/ EnterCycle
    \/ ProducerPhase
    \/ ConsumerPhase
    \/ Delay
    \/ Complete

Spec == Init /\ [][Next]_vars

----------------------------------------------------------------------------
(* Two invocations, their segments interleaved in any order *)

\* the single run's variables, idle while the two invocations are looked at
single == << processingSpeed, enableBackpressure, bufferLimit, rng, pc, cycles,
             itemsGenerated, itemsProcessed, itemsDropped, backpressureEvents,
             buffer, results, events, returned >>

\* both invocations run the program's capacity at one speed; the flags and
\* the seeds are any
TwinInit ==
    /\ processingSpeed = "fast"
    /\ enableBackpressure = TRUE
    /\ bufferLimit = BUFFER_LIMIT
    /\ rng = 0
    /\ pc = "start"
    /\ cycles = 0
    /\ itemsGenerated = 0
    /\ itemsProcessed = 0
    /\ itemsDropped = 0
    /\ backpressureEvents = 0
    /\ buffer = << >>
    /\ results = << >>
    /\ events = << >>
    /\ returned = NoData
    /\ \E speed \in Speeds :
          run \in [Runs -> { NewRun(speed, bp, BUFFER_LIMIT, seed) :
                               bp \in BOOLEAN, seed \in 0..MaxSeed }]
    /\ mem = [c \in Runs |-> NoBindings]
    /\ alone = [r \in Runs |-> Join(run[r], NoBindings)]
    /\ OutsideIdle

\* the segment st -> next of invocation r is written to its record and to
\* its cell; run alone, the same segment reads and writes nothing else
Move(r, next, nextAlone) ==
    /\ run' = [run EXCEPT ![r] = Ctl(next)]
    /\ mem' = [mem EXCEPT ![Cell(r)] = Bindings(next)]
    /\ alone' = [alone EXCEPT ![r] = nextAlone]
    /\ UNCHANGED << single, outside >>

\* up to yield* Effect.log('Starting real-time stream demo')
TBegin(r) ==
    /\ run[r].pc = "start"
    /\ run' = [run EXCEPT ![r].pc = "logged"]
    /\ alone' = [alone EXCEPT ![r].pc = "logged"]
    /\ UNCHANGED << mem, single, outside >>

\* the prologue and the first cycle, up to its Effect.delay
TPrologue(r) ==
    /\ run[r].pc = "logged"
    /\ Move(r, RunLoop(RunPrologue(Join(run[r], mem[Cell(r)]))),
               RunLoop(RunPrologue(alone[r])))

\* resumed after Effect.delay: the loop test, then a cycle or the completion
TResume(r) ==
    /\ run[r].pc = "delay"
    /\ Move(r, RunLoop(Join(run[r], mem[Cell(r)])), RunLoop(alone[r]))

TwinNext == \E r \in Runs : TBegin(r) \/ TPrologue(r) \/ TResume(r)

TwinSpec == TwinInit /\ [][TwinNext]_vars

----------------------------------------------------------------------------
(* Properties *)

Done == pc = "done"
LastEvent == events[Len(events)]
\* the buffer sizes the events report
ReportedSizes ==
    { events[i].data.bufferSize :
        i \in { j \in 1..Len(events) :
                  events[j].msg \in {"Generated", "BACKPRESSURE", "Processed"} } }
\* the consumer is slower than the producer
SlowConsumer == processDelay(processingSpeed) > producerInterval

\* C1: with backpressure enabled the dropped counter is 0 in every state of
\* the run, for every speed, and the verdict event of the completed run
\* reads SUCCESS!, never "Some loss occurred".
C1_NoDropWithBackpressure ==
    enableBackpressure =>
        /\ itemsDropped = 0
        /\ \A i \in 1..Len(events) : events[i].note # "Some loss occurred"
        /\ Done => LastEvent.note = "SUCCESS!"
C1_Witness ==
    /\ enableBackpressure
    /\ Done
    /\ backpressureEvents > 0
    /\ LastEvent.note = "SUCCESS!"

\* C2: for every speed, both policies and every capacity from 1 to 5, the
\* buffer never holds more than the capacity, after the producer phase and
\* after the consumer phase alike, and no event reports a larger size.
C2_BufferWithinCapacity ==
    /\ Len(buffer) <= bufferLimit
    /\ \A n \in ReportedSizes : n <= bufferLimit
C2_Witness ==
    /\ bufferLimit = 1
    /\ pc = "consumer"
    /\ Len(buffer) = 1
    /\ itemsDropped + backpressureEvents > 0

\* C3: after every phase and at the end of the run the buffer holds exactly
\* the items generated and neither processed nor dropped.
C3_Conservation ==
    Len(buffer) = itemsGenerated - itemsProcessed - itemsDropped
C3_Witness ==
    /\ Done
    /\ itemsDropped > 0
    /\ itemsProcessed > 0
    /\ Len(buffer) > 0

\* C4: at every point of the run at least as many items were generated as
\* were processed, the occupancy generated - processed - dropped is never
\* negative, and the consumer never processes a value that was not generated.
C4_GeneratedCoversProcessed ==
    /\ itemsGenerated >= itemsProcessed
    /\ itemsGenerated - itemsProcessed - itemsDropped >= 0
    /\ \A i \in 1..Len(events) :
          events[i].msg = "Processed" => events[i].data.value # Undefined
    /\ \A i \in 1..Len(results) : results[i] # NaN
C4_Witness ==
    /\ itemsProcessed > 0
    /\ itemsProcessed = itemsGenerated
    /\ pc = "delay"

\* C5: Scenario A - capacity 5, backpressure on, a consumer slower than the
\* producer (slow or normal): the completed run has backpressureEvents > 0,
\* dropped = 0 and processed = 20.
C5_ScenarioA ==
    (Done /\ enableBackpressure /\ bufferLimit = BUFFER_LIMIT /\ SlowConsumer) =>
        /\ backpressureEvents > 0
        /\ itemsDropped = 0
        /\ itemsProcessed = TOTAL_ITEMS

\* C6: Scenario B - capacity 5, backpressure off, a consumer slower than the
\* producer (slow or normal): the completed run has dropped > 0,
\* generated = 20 and processed <= 20.
C6_ScenarioB ==
    (Done /\ ~enableBackpressure /\ bufferLimit = BUFFER_LIMIT /\ SlowConsumer) =>
        /\ itemsDropped > 0
        /\ itemsGenerated = TOTAL_ITEMS
        /\ itemsProcessed <= TOTAL_ITEMS
C6_Witness ==
    /\ Done
    /\ ~enableBackpressure
    /\ bufferLimit = BUFFER_LIMIT
    /\ processingSpeed = "normal"
    /\ itemsDropped > 0

\* C7: Scenario C - with the fast consumer and capacity 5 the buffer never
\* reaches the capacity, and backpressureEvents and dropped stay 0 throughout
\* the run, with backpressure on or off.
C7_ScenarioC ==
    (processingSpeed = "fast" /\ bufferLimit = BUFFER_LIMIT) =>
        /\ Len(buffer) < bufferLimit
        /\ \A n \in ReportedSizes : n < bufferLimit
        /\ backpressureEvents = 0
        /\ itemsDropped = 0
C7_Witness ==
    /\ Done
    /\ processingSpeed = "fast"
    /\ bufferLimit = BUFFER_LIMIT
    /\ itemsProcessed = TOTAL_ITEMS

\* C8: itemsGenerated never exceeds the target of 20, and from a state with
\* 20 items generated no step generates, blocks or drops: the producer phase
\* does not fire again.
C8_GeneratedWithinTarget ==
    /\ [](itemsGenerated <= TOTAL_ITEMS)
    /\ [][itemsGenerated = TOTAL_ITEMS =>
            /\ itemsGenerated' = itemsGenerated
            /\ backpressureEvents' = backpressureEvents
            /\ itemsDropped' = itemsDropped]_vars
C8_Witness ==
    /\ itemsGenerated = TOTAL_ITEMS
    /\ itemsProcessed < TOTAL_ITEMS
    /\ Done

\* C9: every run terminates: a cycle is entered only with fewer than 60
\* cycles run and fewer than 20 items processed, so no run executes more than
\* 60 cycles; every step moves the run strictly forward, a step is enabled
\* until the run completes, it ends with processed = 20 or the budget of 60 used
\* up, and the completed run has emitted exactly one summary carrying the
\* counters.
Summaries == { i \in 1..Len(events) : events[i].msg = "Final" }
\* the position of the run: it grows with every step and is at most
\* 4 * 60 + 2
Position ==
    CASE pc = "start"    -> 0
      [] pc = "producer" -> 4 * cycles - 2
      [] pc = "consumer" -> 4 * cycles - 1
      [] pc = "delay"    -> 4 * cycles
      [] pc = "loop"     -> 4 * cycles + 1
      [] pc = "done"     -> 4 * cycles + 2
\* a step of the run is enabled: every position but "done" has a step whose
\* only guard is the position, and at "loop" one of EnterCycle and Complete
\* is enabled whatever LoopCondition says
Runnable ==
    \/ pc \in {"start", "producer", "consumer", "delay"}
    \/ pc = "loop" /\ LoopCondition(cycles, itemsProcessed)
    \/ pc = "loop" /\ ~LoopCondition(cycles, itemsProcessed)
C9_Terminates ==
    /\ [](cycles <= MinCycles)
    /\ [](Done \/ Runnable)
    /\ [][Position' > Position]_vars
    /\ [](pc \in {"producer", "consumer"} => itemsProcessed < TOTAL_ITEMS)
    /\ [](Done => /\ itemsProcessed = TOTAL_ITEMS \/ cycles = MinCycles
                  /\ Cardinality(Summaries) = 1
                  /\ \A i \in Summaries :
                        /\ events[i].type = "complete"
                        /\ events[i].data.generated = itemsGenerated
                        /\ events[i].data.processed = itemsProcessed
                        /\ events[i].data.dropped = itemsDropped
                        /\ events[i].data.backpressureEvents = backpressureEvents)
    /\ [](~Done => Summaries = {})
C9_Witness ==
    /\ Done
    /\ cycles = MinCycles
    /\ itemsProcessed < TOTAL_ITEMS
    /\ Cardinality(Summaries) = 1

\* C10: for every speed and both policies the loop body has run at least 60
\* cycles when the run completes.
C10_AtLeastSixtyCycles ==
    Done => cycles >= Max(2 * TOTAL_ITEMS, MinCycles)
C10_Witness ==
    /\ Done
    /\ processingSpeed = "fast"
    /\ itemsProcessed = TOTAL_ITEMS
    /\ cycles >= MinCycles

\* the producer phase of the current cycle is due: the cycle number is a
\* multiple of ceil(30 / 10) = 3 and fewer than 20 items are generated
ProducerDue == cycles % 3 = 0 /\ itemsGenerated < TOTAL_ITEMS
\* the consumer phase is due on the buffer as the producer phase left it
ConsumerDue ==
    /\ Len(buffer) > 0
    /\ cycles % Ceil(processDelay(processingSpeed), CycleMs) = 0
\* the step changes what a phase can change
PhaseActs ==
    \/ events' # events
    \/ buffer' # buffer
    \/ itemsGenerated' # itemsGenerated
    \/ itemsProcessed' # itemsProcessed
    \/ itemsDropped' # itemsDropped
    \/ backpressureEvents' # backpressureEvents

\* C11: within every cycle (cycles are counted from 1) the producer phase
\* runs before the consumer phase; the producer fires iff the cycle number is
\* a multiple of 3 and fewer than 20 items are generated, the consumer fires
\* iff the buffer the producer phase left is non-empty and the cycle number
\* is a multiple of ceil(consumerDelay / 10).  So when both are due on a full
\* buffer, the producer is blocked (on) or drops (off) although the consumer
\* frees a slot in the same cycle.
C11_PhaseOrder ==
    /\ [](pc \in {"producer", "consumer", "delay"} => cycles >= 1)
    /\ [][pc = "loop" /\ pc' # "done" => pc' = "producer" /\ ~PhaseActs]_vars
    /\ [][pc = "producer" =>
            /\ pc' = "consumer"
            /\ PhaseActs <=> ProducerDue
            /\ itemsProcessed' = itemsProcessed
            /\ (ProducerDue /\ Len(buffer) = bufferLimit) =>
                  IF enableBackpressure
                  THEN /\ backpressureEvents' = backpressureEvents + 1
                       /\ buffer' = buffer
                  ELSE itemsDropped' = itemsDropped + 1]_vars
    /\ [][pc = "consumer" =>
            /\ pc' = "delay"
            /\ PhaseActs <=> ConsumerDue
            /\ itemsGenerated' = itemsGenerated]_vars
C11_Witness ==
    /\ pc = "delay"
    /\ bufferLimit = BUFFER_LIMIT
    /\ cycles % 3 = 0
    /\ LastEvent.msg = "Processed"
    /\ events[Len(events) - 1].msg = "BACKPRESSURE"
    /\ Len(buffer) = bufferLimit - 1

\* C12: producer phase with backpressure on: with free capacity a new value
\* is appended to the buffer and itemsGenerated grows by 1; on a full buffer
\* only backpressureEvents grows by 1 and a backpressure event is emitted,
\* the buffer, itemsGenerated, itemsProcessed and itemsDropped stay as they
\* are.
C12_ProducerOnFrame ==
    [][(pc = "producer" /\ enableBackpressure /\ ProducerDue) =>
          IF Len(buffer) < bufferLimit
          THEN /\ Len(buffer') = Len(buffer) + 1
               /\ SubSeq(buffer', 1, Len(buffer)) = buffer
               /\ buffer'[Len(buffer')] = LastEvent'.data.value
               /\ LastEvent'.msg = "Generated"
               /\ itemsGenerated' = itemsGenerated + 1
          ELSE /\ backpressureEvents' = backpressureEvents + 1
               /\ Len(events') = Len(events) + 1
               /\ SubSeq(events', 1, Len(events)) = events
               /\ LastEvent'.type = "backpressure"
               /\ buffer' = buffer
               /\ itemsGenerated' = itemsGenerated
               /\ itemsProcessed' = itemsProcessed
               /\ itemsDropped' = itemsDropped
               /\ results' = results]_vars
C12_Witness ==
    /\ pc = "consumer"
    /\ enableBackpressure
    /\ LastEvent.type = "backpressure"
    /\ backpressureEvents > 0
    /\ Len(buffer) = bufferLimit

\* C13: producer phase with backpressure off: every firing appends a new
\* value and itemsGenerated grows by 1; on a buffer at capacity the oldest
\* value (the head) is removed first and itemsDropped grows by 1, so the
\* length stays at the capacity and the value dropped is never the new one.
C13_ProducerOffDropsOldest ==
    [][(pc = "producer" /\ ~enableBackpressure /\ ProducerDue) =>
          /\ itemsGenerated' = itemsGenerated + 1
          /\ LastEvent'.msg = "Generated"
          /\ buffer'[Len(buffer')] = LastEvent'.data.value
          /\ IF Len(buffer) >= bufferLimit
             THEN /\ buffer' = Append(Tail(buffer), LastEvent'.data.value)
                  /\ Len(buffer') = bufferLimit
                  /\ itemsDropped' = itemsDropped + 1
                  /\ events'[Len(events') - 1].msg = "OVERFLOW"
                  /\ events'[Len(events') - 1].data.dropped = Head(buffer)
             ELSE /\ buffer' = Append(buffer, LastEvent'.data.value)
                  /\ itemsDropped' = itemsDropped]_vars
C13_Witness ==
    /\ pc = "consumer"
    /\ ~enableBackpressure
    /\ bufferLimit = BUFFER_LIMIT
    /\ Len(buffer) = bufferLimit
    /\ LastEvent.msg = "Generated"
    /\ events[Len(events) - 1].msg = "OVERFLOW"

\* C14: consumer phase: a firing removes exactly the oldest buffered value
\* v, appends 2 * v to the results, adds exactly 1 to itemsProcessed and
\* emits one processed event whose bufferSize is the length after the
\* removal and whose processed field is the new itemsProcessed;
\* itemsGenerated, itemsDropped and backpressureEvents are unchanged.
C14_ConsumerStep ==
    [][(pc = "consumer" /\ PhaseActs) =>
          /\ Len(buffer) > 0
          /\ buffer' = Tail(buffer)
          /\ results' = Append(results, 2 * Head(buffer))
          /\ itemsProcessed' = itemsProcessed + 1
          /\ Len(events') = Len(events) + 1
          /\ SubSeq(events', 1, Len(events)) = events
          /\ LastEvent'.msg = "Processed"
          /\ LastEvent'.data.value = Head(buffer)
          /\ LastEvent'.data.transformed = 2 * Head(buffer)
          /\ LastEvent'.data.bufferSize = Len(buffer')
          /\ LastEvent'.data.processed = itemsProcessed'
          /\ itemsGenerated' = itemsGenerated
          /\ itemsDropped' = itemsDropped
          /\ backpressureEvents' = backpressureEvents]_vars
C14_Witness ==
    /\ pc = "delay"
    /\ LastEvent.msg = "Processed"
    /\ Len(buffer) > 1
    /\ itemsProcessed > 1
    /\ LastEvent.data.bufferSize = Len(buffer)

\* the summary event of a completed run
Summary == events[Len(events) - 1]
\* the number of events of a kind
Count(msg) == Cardinality({ i \in 1..Len(events) : events[i].msg = msg })
\* the sum of the values the first n events report as generated, as
\* processed, as dropped
RECURSIVE GeneratedValues(_)
GeneratedValues(n) ==
    IF n = 0 THEN 0
    ELSE GeneratedValues(n - 1)
         + (IF events[n].msg = "Generated" THEN events[n].data.value ELSE 0)
RECURSIVE ProcessedValues(_)
ProcessedValues(n) ==
    IF n = 0 THEN 0
    ELSE ProcessedValues(n - 1)
         + (IF events[n].msg = "Processed" THEN events[n].data.value ELSE 0)
RECURSIVE DroppedValues(_)
DroppedValues(n) ==
    IF n = 0 THEN 0
    ELSE DroppedValues(n - 1)
         + (IF events[n].msg = "OVERFLOW" THEN events[n].data.dropped ELSE 0)
\* the sum of the values in the buffer
RECURSIVE Total(_)
Total(s) == IF Len(s) = 0 THEN 0 ELSE Head(s) + Total(Tail(s))

C16_SumOfConsumed ==
    Done =>
        /\ Summary.data.sum = 2 * ProcessedValues(Len(events))
        /\ returned.sum = Summary.data.sum
        /\ Len(results) = itemsProcessed
        /\ Count("Processed") = itemsProcessed
        /\ Summary.data.sum =
              2 * (GeneratedValues(Len(events)) - DroppedValues(Len(events))
                   - Total(buffer))
C16_Witness ==
    /\ Done
    /\ itemsProcessed > 1
    /\ itemsDropped > 0
    /\ Len(buffer) > 0
    /\ Summary.data.sum > 0

\* C17: onEvent is called once for every event, when the change it reports
\* happens and in that order: the log only grows at its end, every count of
\* events equals its counter in every state, the k-th processed event and
\* the k-th overflow event carry the number k, an overflow event is followed
\* at once by the generated event of the same firing, a producer event of a
\* cycle precedes the processed event of that cycle, and the two complete
\* events come last.
C17_EventOrder ==
    /\ [][/\ Len(events') >= Len(events)
          /\ SubSeq(events', 1, Len(events)) = events]_vars
    /\ [](/\ Count("Generated") = itemsGenerated
          /\ Count("OVERFLOW") = itemsDropped
          /\ Count("BACKPRESSURE") = backpressureEvents
          /\ Count("Processed") = itemsProcessed)
    /\ [](\A i \in 1..Len(events) :
            /\ events[i].msg = "Processed" =>
                  events[i].data.processed =
                     Cardinality({ j \in 1..i : events[j].msg = "Processed" })
            /\ events[i].msg = "OVERFLOW" =>
                  /\ events[i].data.totalDropped =
                        Cardinality({ j \in 1..i : events[j].msg = "OVERFLOW" })
                  /\ i < Len(events)
                  /\ events[i + 1].msg = "Generated"
            /\ events[i].type = "complete" => Done /\ i >= Len(events) - 1)
    /\ [][pc = "producer" /\ PhaseActs =>
            LastEvent'.msg \in {"Generated", "BACKPRESSURE"}]_vars
    /\ [][pc = "consumer" /\ PhaseActs =>
            /\ events' = Append(events, LastEvent')
            /\ LastEvent'.msg = "Processed"]_vars
    /\ [](Done => /\ Summary.type = "complete" /\ Summary.msg = "Final"
                  /\ LastEvent.type = "complete")
C17_Witness ==
    /\ pc = "delay"
    /\ Len(events) > 5
    /\ events[Len(events) - 2].msg = "OVERFLOW"
    /\ events[Len(events) - 1].msg = "Generated"
    /\ LastEvent.msg = "Processed"
    /\ cycles % 3 = 0

\* C20: with a well-formed configuration (capacity > 0, target > 0) the run
\* reaches no error state: the consumer's shift and the eviction only run on
\* a non-empty buffer, no undefined value is processed or dropped, and every
\* run ends with the complete summary emitted.
C20_NoErrorState ==
    /\ [](bufferLimit > 0 /\ TOTAL_ITEMS > 0)
    /\ [][itemsProcessed' # itemsProcessed \/ itemsDropped' # itemsDropped =>
            Len(buffer) > 0]_vars
    /\ [](\A i \in 1..Len(events) :
            /\ events[i].msg = "Processed" =>
                  events[i].data.value # Undefined /\ events[i].data.transformed # NaN
            /\ events[i].msg = "OVERFLOW" => events[i].data.dropped # Undefined)
    /\ [](Done \/ Runnable)
    /\ [](Done => /\ Summary.msg = "Final"
                  /\ Summary.data.sum # NaN
                  /\ returned.sum # NaN)
C20_Witness ==
    /\ Done
    /\ bufferLimit = 1
    /\ itemsDropped > 0
    /\ itemsProcessed > 0
    /\ Summary.msg = "Final"

\* what invocation r sees: its record and the bindings of its cell
View(r) == Join(run[r], mem[Cell(r)])
\* how far an invocation is
At(st) == << st.pc, st.cycles >>
\* the two invocations were given the same configuration
SameConfig ==
    /\ run[1].speed = run[2].speed
    /\ run[1].bp = run[2].bp
    /\ run[1].limit = run[2].limit
\* the part of an invocation that the random values are claimed not to
\* reach: the counters, the buffer length and the kinds of the events
Shape(st) ==
    [pc |-> st.pc, cycles |-> st.cycles,
     itemsGenerated |-> st.itemsGenerated,
     itemsProcessed |-> st.itemsProcessed,
     itemsDropped |-> st.itemsDropped,
     backpressureEvents |-> st.backpressureEvents,
     bufferLength |-> Len(st.buffer),
     kinds |-> [i \in 1..Len(st.events) |->
                  << st.events[i].type, st.events[i].msg, st.events[i].note >>]]

\* C18: two runs with the same configuration and the same random values
\* have, at the same point, the same events (types, values, buffer sizes,
\* counters) and the same results; and with the same configuration alone,
\* whatever the random values, the same kinds of events in the same order
\* and the same counters generated, processed, dropped, backpressureEvents.
C18_Determinism ==
    (SameConfig /\ At(View(1)) = At(View(2))) =>
        /\ Shape(View(1)) = Shape(View(2))
        /\ run[1].seed = run[2].seed => View(1) = View(2)
C18_Witness ==
    /\ SameConfig
    /\ run[1].seed # run[2].seed
    /\ run[1].pc = "done"
    /\ run[2].pc = "done"
    /\ View(1).itemsDropped > 0
    /\ View(1).itemsProcessed > 0
    /\ run[1].events # run[2].events
    /\ run[1].returned.sum # run[2].returned.sum

\* C19: each run starts from an empty buffer and zeroed counters, and with
\* the segments of two runs interleaved in any order no run reads or writes
\* the other's buffer or counters: a step changes what one run sees and
\* nothing of what the other sees, and what each run sees - its event log,
\* its counters, its result - is what it is when the run is executed alone.
C19_Isolation ==
    /\ [](\A r \in Runs : View(r) = alone[r])
    /\ [][\E r \in Runs : \A o \in Runs \ {r} : View(o)' = View(o)]_vars
    /\ [](\A r \in Runs :
            (run[r].pc = "delay" /\ View(r).cycles = 1) =>
               /\ Bindings(View(r)) = [NoBindings EXCEPT !.cycles = 1]
               /\ Len(run[r].events) = 3)
C19_Witness ==
    /\ run[1].pc = "delay"
    /\ run[2].pc = "delay"
    /\ run[1].bp # run[2].bp
    /\ View(1).cycles = 31
    /\ View(2).cycles = 17
    /\ View(1).itemsGenerated # View(2).itemsGenerated
    /\ Len(View(2).buffer) > 0

\* the places where an invocation can be seen from outside
YieldPoints == {"start", "logged", "delay", "done"}
\* between two consecutive yield points inside the loop, invocation r has
\* run one whole tick: the cycle counted, the producer phase if it was due,
\* then the consumer phase if it was due on the buffer the producer left
WholeTick(r) ==
    LET old      == View(r)
        new      == View(r)'
        pushed   == new.itemsGenerated - old.itemsGenerated
        evicted  == new.itemsDropped - old.itemsDropped
        blocked  == new.backpressureEvents - old.backpressureEvents
        consumed == new.itemsProcessed - old.itemsProcessed
        due      == new.cycles % 3 = 0 /\ old.itemsGenerated < TOTAL_ITEMS
        full     == Len(old.buffer) = old.limit
        mid      == Len(old.buffer) + pushed - evicted
        eat      == mid > 0
                    /\ new.cycles % Ceil(processDelay(old.speed), CycleMs) = 0
    IN  /\ new.cycles = old.cycles + 1
        /\ pushed = (IF due /\ ~(old.bp /\ full) THEN 1 ELSE 0)
        /\ blocked = (IF due /\ old.bp /\ full THEN 1 ELSE 0)
        /\ evicted = (IF due /\ ~old.bp /\ full THEN 1 ELSE 0)
        /\ consumed = (IF eat THEN 1 ELSE 0)
        /\ Len(new.buffer) = mid - consumed

\* C22: a run is only ever seen at a yield point - before its first tick,
\* at the delay that ends a tick, or after its return - and there its buffer
\* length is generated - processed - dropped and at most the capacity; from
\* one delay to the next the producer and consumer phases of exactly one tick
\* have both run, whatever the other run does in between.
C22_AtomicTicks ==
    /\ [](\A r \in Runs :
            /\ run[r].pc \in YieldPoints
            /\ Len(View(r).buffer) =
                  View(r).itemsGenerated - View(r).itemsProcessed
                     - View(r).itemsDropped
            /\ Len(View(r).buffer) <= run[r].limit)
    /\ [][\A r \in Runs :
            (View(r)' # View(r) /\ run[r].pc \in {"logged", "delay"}
                /\ run[r].pc' = "delay")
               => WholeTick(r)]_vars
C22_Witness ==
    /\ run[1].pc = "delay"
    /\ run[2].pc = "delay"
    /\ View(1).cycles = 21
    /\ View(2).cycles = 40
    /\ ~run[1].bp
    /\ View(1).itemsDropped > 0
    /\ Len(View(1).buffer) = run[1].limit
    /\ View(2).itemsProcessed > 0

\* the values the events of a kind report, in the order of the log
RECURSIVE ValuesOf(_, _)
ValuesOf(evs, msg) ==
    IF Len(evs) = 0 THEN << >>
    ELSE LET rest == ValuesOf(Tail(evs), msg)
         IN  IF Head(evs).msg = msg THEN << Head(evs).data.value >> \o rest
             ELSE rest
\* a is b with some elements left out
RECURSIVE IsSubseq(_, _)
IsSubseq(a, b) ==
    IF Len(a) = 0 THEN TRUE
    ELSE IF Len(b) = 0 THEN FALSE
    ELSE IF Head(a) = Head(b) THEN IsSubseq(Tail(a), Tail(b))
    ELSE IsSubseq(a, Tail(b))
\* the values consumed so far, recovered from the results
Halved(s) == [i \in 1..Len(s) |-> s[i] \div 2]

\* C23: with backpressure on, the processed values followed by the buffer
\* contents are the generated values in generation order - none lost,
\* duplicated or reordered; with backpressure off, the processed values are
\* a subsequence of the generated values in generation order.
C23_OrderPreserved ==
    LET generated == ValuesOf(events, "Generated")
        processed == ValuesOf(events, "Processed")
    IN  /\ \A i \in 1..Len(results) : results[i] # NaN
        /\ processed = Halved(results)
        /\ Len(processed) = itemsProcessed
        /\ enableBackpressure => processed \o buffer = generated
        /\ ~enableBackpressure => IsSubseq(processed, generated)
C23_Witness ==
    /\ enableBackpressure
    /\ backpressureEvents > 0
    /\ itemsProcessed >= 2
    /\ Len(buffer) >= 2
    /\ pc = "delay"

\* the run with the policy on, the run with the policy off
PolicyPair == run[1].bp /\ ~run[2].bp /\ run[1].speed = run[2].speed

\* C24: for the same speed, after the same number of ticks the run with
\* backpressure on and the run with backpressure off have the same buffer
\* length and the same itemsProcessed, the ticks that block in the one are
\* the ticks that drop in the other, so dropped(OFF) = backpressureEvents(ON)
\* and generated(OFF) = generated(ON) + backpressureEvents(ON).
C24_PolicyEquivalence ==
    (PolicyPair /\ View(1).cycles = View(2).cycles
        /\ run[1].pc \in {"delay", "done"} /\ run[2].pc \in {"delay", "done"})
    => /\ Len(View(1).buffer) = Len(View(2).buffer)
       /\ View(1).itemsProcessed = View(2).itemsProcessed
       /\ View(2).itemsDropped = View(1).backpressureEvents
       /\ View(2).itemsGenerated =
             View(1).itemsGenerated + View(1).backpressureEvents
       /\ View(1).itemsDropped = 0
       /\ View(2).backpressureEvents = 0
C24_Witness ==
    /\ PolicyPair
    /\ run[1].pc = "done"
    /\ run[2].pc = "done"
    /\ View(1).backpressureEvents > 0
    /\ View(2).itemsDropped > 0
    /\ View(2).itemsGenerated = TOTAL_ITEMS

----------------------------------------------------------------------------
(* The mock server (src/server/index.js) *)

\* the single run as constructed and never started
SingleIdle ==
    /\ processingSpeed = "fast"
    /\ enableBackpressure = TRUE
    /\ bufferLimit = BUFFER_LIMIT
    /\ rng = 0
    /\ pc = "start"
    /\ cycles = 0
    /\ itemsGenerated = 0
    /\ itemsProcessed = 0
    /\ itemsDropped = 0
    /\ backpressureEvents = 0
    /\ buffer = << >>
    /\ results = << >>
    /\ events = << >>
    /\ returned = NoData

\* the three data routes
Endpoints == {"users", "orders", "recommendations"}

\* what generateUser / generateOrders / generateRecommendations give
Payload(endpoint) ==
    CASE endpoint = "users" -> "user"
      [] endpoint = "orders" -> "orders"
      [] OTHER -> "recommendations"

\* mutant: no try/catch around maybeThrow - the rejection of the async
\* handler is dropped and nothing is sent
Respond_Uncaught(req, throws) ==
    IF throws
    THEN [req EXCEPT !.pc = "done"]
    ELSE [req EXCEPT !.pc = "done",
                     !.responses = Append(@, [status |-> 200,
                                              json |-> Payload(req.endpoint)])]
\* after the delay: maybeThrow, then res.json(data), or in the catch block
\* res.status(500).json({ error, message })
Respond(req, throws) ==
    IF throws
    THEN [req EXCEPT !.pc = "done",
                     !.responses = Append(@, [status |-> 500, json |-> "error"])]
    ELSE [req EXCEPT !.pc = "done",
                     !.responses = Append(@, [status |-> 200,
                                              json |-> Payload(req.endpoint)])]

ServerInit ==
    /\ SingleIdle
    /\ TwinIdle
    /\ StreamsStart
    /\ DashboardStart
    /\ ServerStart

\* request i reaches a route: the handler logs and awaits delay(min, max)
Receive(i, endpoint) ==
    /\ requests[i].pc = "none"
    /\ requests' = [requests EXCEPT ![i].pc = "delay",
                                    ![i].endpoint = endpoint]
    /\ UNCHANGED << single, twin, streamVars, dashVars >>

\* the timer of request i fires; Math.random() < errorRate is either way
Resume(i) ==
    /\ requests[i].pc = "delay"
    /\ \E throws \in BOOLEAN :
          requests' = [requests EXCEPT ![i] = Respond(requests[i], throws)]
    /\ UNCHANGED << single, twin, streamVars, dashVars >>

ServerNext ==
    \E i \in 1..MaxRequests :
       \/ \E endpoint \in Endpoints : Receive(i, endpoint)
       \/ Resume(i)

\* setTimeout fires: every pending delay ends
ServerSpec ==
    /\ ServerInit
    /\ [][ServerNext]_vars
    /\ \A i \in 1..MaxRequests : WF_vars(Resume(i))

\* C21: every request to a data endpoint eventually receives exactly one
\* response, a 200 with the JSON payload or a 500 with a JSON error, never
\* both and never none, and a step of one request - a simulated failure
\* included - changes nothing of the other requests.
C21_ExactlyOneResponse ==
    /\ [](\A i \in 1..MaxRequests :
            LET req == requests[i]
            IN  /\ Len(req.responses) <= 1
                /\ req.pc = "done" <=> Len(req.responses) = 1
                /\ \A n \in 1..Len(req.responses) :
                      \/ req.responses[n] =
                            [status |-> 200, json |-> Payload(req.endpoint)]
                      \/ req.responses[n] = [status |-> 500, json |-> "error"])
    /\ \A i \in 1..MaxRequests :
          (requests[i].pc = "delay") ~> (Len(requests[i].responses) = 1)
    /\ [][\A i, j \in 1..MaxRequests :
            (i # j /\ requests[i]' # requests[i])
               => requests[j]' = requests[j]]_vars
C21_Witness ==
    /\ requests[1].pc = "done"
    /\ requests[1].responses[1].status = 500
    /\ requests[2].pc = "done"
    /\ requests[2].responses[1].status = 200
    /\ requests[2].endpoint = requests[1].endpoint
    /\ requests[3].pc = "delay"

----------------------------------------------------------------------------
(* The useStreams hook (src/src/lib/streams.ts, from line 361) *)

\* .slice(0, 100)
LogLimit == 100
\* the demos the switch selects
StreamDemos == {"csv", "realtime", "composition"}
\* String(error) of the errors a call can be rejected with, and those of
\* them that include 'Interrupted'
ErrorTexts == {"Error: demo failed", "(FiberFailure) Interrupted"}
Interruptions == {"(FiberFailure) Interrupted"}
IncludesInterrupted(text) == text \in Interruptions

\* Array.prototype.slice(0, n)
Slice0(s, n) == SubSeq(s, 1, IF Len(s) < n THEN Len(s) ELSE n)

\* mutant: [...prev.streamLogs, event].slice(0, 100)
OnStreamEvent_Appends(st, event) ==
    [st EXCEPT !.streamLogs = Slice0(Append(@, event), LogLimit)]
\* onStreamEvent: streamLogs: [event, ...prev.streamLogs].slice(0, 100)
OnStreamEvent(st, event) ==
    [st EXCEPT !.streamLogs = Slice0(<< event >> \o @, LogLimit)]

\* the events of the n-th call: the demo's events, the error event
DemoEvent(call, n) == [type |-> "demo", call |-> call, n |-> n]
ErrorEvent(call, text) == [type |-> "error", call |-> call, message |-> text]

\* catch (error): only an error that is not an interruption is logged
Catch(st, call, text) ==
    IF ~IncludesInterrupted(text)
    THEN OnStreamEvent(st, ErrorEvent(call, text))
    ELSE st

\* mutant: no finally block
Finally_Missing(st) == st
\* finally: isStreamRunning: false
Finally(st) == [st EXCEPT !.isStreamRunning = FALSE]

StreamsInit ==
    /\ SingleIdle
    /\ TwinIdle
    /\ ServerStart
    /\ DashboardStart
    /\ StreamsStart

\* updateStreamState({ streamDemo }) from the demo buttons
UpdateStreamState(d) ==
    /\ streamState.streamDemo # d
    /\ streamState' = [streamState EXCEPT !.streamDemo = d]
    /\ UNCHANGED << demo, received, single, twin, serverVars, dashVars >>

\* the run button (disabled while isStreamRunning) calls runStreamDemo: the
\* state update, the options, up to await import('effect')
RunStreamDemo ==
    /\ ~streamState.isStreamRunning
    /\ demo.call < MaxCalls
    /\ streamState' = [streamState EXCEPT !.isStreamRunning = TRUE,
                                          !.streamLogs = << >>]
    /\ demo' = [pc |-> "import", call |-> demo.call + 1, emitted |-> 0,
                streamDemo |-> streamState.streamDemo, outcome |-> "none"]
    /\ received' = << >>
    /\ UNCHANGED << single, twin, serverVars, dashVars >>

\* the import resolves and Effect.runPromise starts the selected demo
Imported ==
    /\ demo.pc = "import"
    /\ demo' = [demo EXCEPT !.pc = "running"]
    /\ UNCHANGED << streamState, received, single, twin, serverVars, dashVars >>

\* the demo calls options.onEvent
Emit ==
    /\ demo.pc = "running"
    /\ demo.emitted < MaxEvents
    /\ LET event == DemoEvent(demo.call, demo.emitted + 1)
       IN  /\ streamState' = OnStreamEvent(streamState, event)
           /\ received' = Append(received, event)
    /\ demo' = [demo EXCEPT !.emitted = @ + 1]
    /\ UNCHANGED << single, twin, serverVars, dashVars >>

\* the promise resolves: return result, then the finally block
Returns ==
    /\ demo.pc = "running"
    /\ streamState' = Finally(streamState)
    /\ demo' = [demo EXCEPT !.pc = "idle", !.outcome = "result"]
    /\ UNCHANGED << received, single, twin, serverVars, dashVars >>

\* the import or the promise rejects: the catch block, then the finally block
Rejects(text) ==
    /\ demo.pc \in {"import", "running"}
    /\ LET caught == Catch(streamState, demo.call, text)
       IN  /\ streamState' = Finally(caught)
           /\ received' = IF caught = streamState THEN received
                          ELSE Append(received, ErrorEvent(demo.call, text))
    /\ demo' = [demo EXCEPT !.pc = "idle", !.outcome = text]
    /\ UNCHANGED << single, twin, serverVars, dashVars >>

\* the call in progress settles
Settles == Returns \/ \E text \in ErrorTexts : Rejects(text)

StreamsNext ==
    \/ \E d \in StreamDemos : UpdateStreamState(d)
    \/ RunStreamDemo
    \/ Imported
    \/ Emit
    \/ Returns
    \/ \E text \in ErrorTexts : Rejects(text)

\* the dynamic import settles and every demo comes to an end
StreamsSpec ==
    /\ StreamsInit
    /\ [][StreamsNext]_vars
    /\ WF_vars(Imported)
    /\ WF_vars(Settles)

\* C25: after any sequence of stream events streamLogs holds at most 100
\* events, newest first, and they are exactly the most recent events
\* received since the last run start.
C25_LogNewestFirst ==
    /\ Len(streamState.streamLogs) <= LogLimit
    /\ Len(streamState.streamLogs) =
          (IF Len(received) < LogLimit THEN Len(received) ELSE LogLimit)
    /\ \A i \in 1..Len(streamState.streamLogs) :
          streamState.streamLogs[i] = received[Len(received) - i + 1]
C25_Witness ==
    /\ demo.call = 2
    /\ Len(received) > LogLimit
    /\ streamState.streamLogs[1].type = "error"
    /\ streamState.streamLogs[LogLimit].n = 3

----------------------------------------------------------------------------
(* The useDashboard hook (src/unnamed/part_003) and the program it runs   *)
(* (programWithEffectConcurrency, runDashboard in src/src/lib/dashboard.ts) *)

\* .slice(0, 50)
LogsLimit == 50
\* ConcurrencyMode
Modes == {"concurrent", "sequential", "fibers", "racing", "batched"}
\* the order in which the program names its tasks
Order == << "user", "orders", "recs" >>
\* the causes a wrapped task can end with: the underlying call failed, the
\* Error('timeout') that Effect.timeoutFail fails with, an interruption
CallFailed == "Fail(error)"
TimedOut == "Fail(timeout)"
Interrupt == "Interrupt"
\* Cause.isInterrupted
IsInterrupted(cause) == cause = Interrupt

\* the hook's state, the runs and the origins as one value
World == [ds |-> dashboardState, runs |-> dashRuns, origin |-> edgeOrigin]

\* pushLog of run k: logs: [msg, ...prev.logs].slice(0, 50)
PushLog(w, k, text) ==
    [w EXCEPT !.ds.logs = Slice0(<< [run |-> k, text |-> text] >> \o @,
                                 LogsLimit)]

\* trackingOnState of run k: onState(key, s), then the completion test
\* with the run's own `completed` flag
TrackingOnState(w, k, key, s) ==
    LET updated  == [w.ds.edgeStates EXCEPT ![key] = s]
        finishes == /\ ~w.runs[k].completed
                    /\ \A t \in TaskKeys : updated[t] # "pending"
    IN  [w EXCEPT !.ds.edgeStates = updated,
                  !.ds.executionTime = IF finishes THEN [run |-> k] ELSE @,
                  !.ds.isRunning = IF finishes THEN FALSE ELSE @,
                  !.runs[k].completed = IF finishes THEN TRUE ELSE @,
                  !.origin = [@ EXCEPT ![key] = k,
                                       !["executionTime"] =
                                          IF finishes THEN k ELSE @]]

\* wrap, the success path: the completed line, done('success'); in racing
\* mode the task's own finished line follows
Succeed(w, k, key) ==
    LET a == PushLog(w, k, << "completed", key >>)
        b == TrackingOnState(a, k, key, "success")
        c == [b EXCEPT !.runs[k].tasks[key] = "success"]
    IN  IF c.runs[k].mode = "racing"
        THEN PushLog(c, k, << "finished", key >>)
        ELSE c

\* wrap, Effect.catchAllCause: isTimeout = Cause.isInterrupted(c), the line
\* and the state it selects
CatchAllCause(w, k, key, cause) ==
    LET isTimeout == IsInterrupted(cause)
        a == PushLog(w, k, << IF isTimeout THEN "timed out" ELSE "failed",
                              key >>)
    IN  TrackingOnState(a, k, key, IF isTimeout THEN "timeout" ELSE "error")

\* a task ends with a failure: the handler, then the task is over
Fail(w, k, key, cause) ==
    [CatchAllCause(w, k, key, cause) EXCEPT
        !.runs[k].tasks[key] = IF cause = TimedOut THEN "timedout" ELSE "error"]

\* wrap, the start: the description line, then the call - the mock layers
\* answer at once, the live layers fetch
StartTask(w, k, key) ==
    LET a == PushLog(w, k, << "start", key >>)
    IN  IF a.runs[k].useMocks
        THEN Succeed(a, k, key)
        ELSE [a EXCEPT !.runs[k].tasks[key] = "running"]

\* the end of the program: the blank line and the closing line
ProgramCompletes(w, k) ==
    [PushLog(PushLog(w, k, << "" >>), k, << "Dashboard Complete" >>)
        EXCEPT !.runs[k].program = "succeeded"]

\* the tasks of a run in a given state
TasksIn(r, states) == { t \in TaskKeys : r.tasks[t] \in states }

\* the program starts its next task when the mode allows it: one after
\* another, at most two at a time, or all at once; with all three done it
\* completes
Step(w, k) ==
    LET r       == w.runs[k]
        waiting == { i \in 1..Len(Order) : r.tasks[Order[i]] = "waiting" }
        i       == CHOOSE n \in waiting : \A m \in waiting : n <= m
        allowed == CASE r.mode = "sequential" ->
                           \A j \in 1..(i - 1) : r.tasks[Order[j]] = "success"
                     [] r.mode = "batched" ->
                           Cardinality(TasksIn(r, {"running"})) < 2
                     [] OTHER -> TRUE
    IN  IF r.program # "running" THEN w
        ELSE IF waiting # {}
        THEN IF allowed THEN StartTask(w, k, Order[i]) ELSE w
        ELSE IF TasksIn(r, {"success"}) = TaskKeys THEN ProgramCompletes(w, k)
        ELSE w
Schedule(w, k) == Step(Step(Step(Step(w, k), k), k), k)

\* the program fails as soon as a task fails (Effect.bind, Effect.all), in
\* fibers mode when Fiber.join reaches a failed task in the order user,
\* orders, recs
ProgramFails(r) ==
    IF r.mode = "fibers"
    THEN \E i \in 1..Len(Order) :
            /\ r.tasks[Order[i]] \in {"error", "timedout"}
            /\ \A j \in 1..(i - 1) : r.tasks[Order[j]] = "success"
    ELSE TasksIn(r, {"error", "timedout"}) # {}

\* after a task has ended: the failing program interrupts the tasks still
\* in flight - an interrupted task runs no handler - and starts no other;
\* otherwise the program goes on
Settle(w, k) ==
    IF w.runs[k].program = "running" /\ ProgramFails(w.runs[k])
    THEN [w EXCEPT !.runs[k].program = "failed",
                   !.runs[k].tasks =
                      [t \in TaskKeys |->
                         IF @[t] = "running" THEN "interrupted" ELSE @[t]]]
    ELSE Schedule(w, k)

\* runDashboard: opts.concurrencyMode || (opts.sequential ? ... : ...)
ModeOf(ds) ==
    IF ds.concurrencyMode # "" THEN ds.concurrencyMode
    ELSE IF ds.sequential THEN "sequential" ELSE "concurrent"

\* the effect after a render whose dependencies changed: nothing while
\* runToken is 0; else the reset, the closure of the new run, runDashboard
UseEffect(w) ==
    IF w.ds.runToken = 0 THEN w
    ELSE
      LET k == Len(w.runs) + 1
          reset == [w EXCEPT
             !.ds.isRunning = TRUE,
             !.ds.executionTime = NoData,
             !.ds.edgeStates = [t \in TaskKeys |-> "pending"],
             !.ds.logs = << >>,
             !.origin = [t \in DOMAIN @ |-> 0],
             !.runs = Append(@, [useMocks |-> w.ds.useMocks,
                                 mode |-> ModeOf(w.ds),
                                 completed |-> FALSE,
                                 program |-> "running",
                                 tasks |-> [t \in TaskKeys |-> "waiting"]])]
          a == PushLog(reset, k, << "Starting Dashboard", ModeOf(w.ds) >>)
          b == PushLog(a, k, << "User ID" >>)
          c == PushLog(b, k, << "" >>)
          d == PushLog(c, k, << "mode", ModeOf(w.ds) >>)
          e == IF ModeOf(w.ds) = "fibers" THEN PushLog(d, k, << "Forked" >>)
               ELSE d
      IN  Schedule(e, k)

\* the world after a handler has run
Becomes(w) ==
    /\ dashboardState' = w.ds
    /\ dashRuns' = w.runs
    /\ edgeOrigin' = w.origin
    /\ UNCHANGED << single, twin, serverVars, streamVars >>

DashboardInit ==
    /\ SingleIdle
    /\ TwinIdle
    /\ ServerStart
    /\ StreamsStart
    /\ DashboardStart

\* runDashboardDemo: runToken + 1, the render, the effect
RunDashboardDemo ==
    /\ Len(dashRuns) < MaxDashRuns
    /\ Becomes(UseEffect([World EXCEPT !.ds.runToken = @ + 1]))

\* updateDashboardState with a new value of useMocks, sequential or
\* concurrencyMode: the merge, the render, the effect (all three are among
\* its dependencies)
UpdateDashboardState(field, value) ==
    /\ dashboardState[field] # value
    /\ dashboardState.runToken # 0 => Len(dashRuns) < MaxDashRuns
    /\ Becomes(UseEffect([World EXCEPT !.ds[field] = value]))

\* the call of a task of run k returns within the limit
TaskSucceeds(k, key) ==
    /\ k <= Len(dashRuns)
    /\ dashRuns[k].tasks[key] = "running"
    /\ Becomes(Settle(Succeed(World, k, key), k))

\* the call of a task of run k fails
TaskFails(k, key) ==
    /\ k <= Len(dashRuns)
    /\ dashRuns[k].tasks[key] = "running"
    /\ Becomes(Settle(Fail(World, k, key, CallFailed), k))

\* the 5 seconds of Effect.timeoutFail elapse before the call returns
TaskTimesOut(k, key) ==
    /\ k <= Len(dashRuns)
    /\ dashRuns[k].tasks[key] = "running"
    /\ Becomes(Settle(Fail(World, k, key, TimedOut), k))

DashboardNext ==
    \/ RunDashboardDemo
    \/ \E value \in BOOLEAN : UpdateDashboardState("useMocks", value)
    \/ \E value \in BOOLEAN : UpdateDashboardState("sequential", value)
    \/ \E value \in Modes : UpdateDashboardState("concurrencyMode", value)
    \/ \E k \in 1..MaxDashRuns, key \in TaskKeys : TaskSucceeds(k, key)
    \/ \E k \in 1..MaxDashRuns, key \in TaskKeys : TaskFails(k, key)
    \/ \E k \in 1..MaxDashRuns, key \in TaskKeys : TaskTimesOut(k, key)

DashboardSpec == DashboardInit /\ [][DashboardNext]_vars

\* every started run is at rest: none of its tasks is in flight, so it
\* takes no further step
AtRest ==
    /\ dashRuns # << >>
    /\ \A k \in 1..Len(dashRuns) : TasksIn(dashRuns[k], {"running"}) = {}
\* the run started last
Latest == dashRuns[Len(dashRuns)]

\* C27 as claimed: every started run sets isRunning back to false and
\* records executionTime once, in every mode and whether the tasks succeed
\* or one fails, each of user, orders and recs leaving 'pending' - so when
\* the started runs are at rest, all of this has happened.
C27_RunSettles ==
    AtRest =>
       /\ ~dashboardState.isRunning
       /\ dashboardState.executionTime # NoData
       /\ \A key \in TaskKeys : dashboardState.edgeStates[key] # "pending"
       /\ \A k \in 1..Len(dashRuns) : dashRuns[k].completed

\* a line of run k in the log
Logged(k, text) ==
    \E i \in 1..Len(dashboardState.logs) :
       dashboardState.logs[i] = [run |-> k, text |-> text]

\* C28 as claimed: a task that does not complete within the 5 seconds is
\* reported with state 'timeout' and logged as timed out, a task whose call
\* fails is reported 'error', and 'success' is reported only for a task
\* that completed within the limit.
C28_TimeoutReported ==
    \A key \in TaskKeys :
       LET k == edgeOrigin[key]
       IN  k # 0 =>
             /\ dashRuns[k].tasks[key] = "timedout" =>
                   /\ dashboardState.edgeStates[key] = "timeout"
                   /\ Logged(k, << "timed out", key >>)
             /\ dashRuns[k].tasks[key] = "error" =>
                   dashboardState.edgeStates[key] = "error"
             /\ dashboardState.edgeStates[key] = "success" =>
                   dashRuns[k].tasks[key] = "success"

\* C29 as claimed: after the reset of a later run, nothing of an earlier
\* run reaches the state: every edge state that is not pending, every log
\* line and the execution time come from the later run, and isRunning is
\* reset by the later run only.
C29_NoStaleUpdates ==
    dashRuns # << >> =>
       /\ \A key \in TaskKeys :
             dashboardState.edgeStates[key] # "pending"
                => edgeOrigin[key] = Len(dashRuns)
       /\ \A i \in 1..Len(dashboardState.logs) :
             dashboardState.logs[i].run = Len(dashRuns)
       /\ dashboardState.executionTime # NoData
             => dashboardState.executionTime = [run |-> Len(dashRuns)]
       /\ ~dashboardState.isRunning => Latest.completed

\* C30 as claimed: a run is started only by runDashboardDemo - none on the
\* initial render, none by an update of useMocks, sequential or
\* concurrencyMode - so the number of runs started is the number of
\* runDashboardDemo calls, which runToken counts.
C30_RunsOnlyOnDemand ==
    Len(dashRuns) = dashboardState.runToken

====
